---- MODULE Spec2Model ----
(***************************************************************************)
(* worthy: valuation of holdings in a common currency.                     *)
(*                                                                         *)
(* common_currency.rs builds a graph from exchange-rate observations and   *)
(* runs a Bellman-Ford whose "addition" is decimal multiplication;         *)
(* main.rs (model_and_show) uses the resulting table to add up holdings.   *)
(*                                                                         *)
(* Decimal values are fixed-point integers: the value v is represented by  *)
(* the integer v * Unit.  rust_decimal keeps 28 fractional digits; the     *)
(* model keeps DecimalScale of them, with the same rounding behaviour      *)
(* (products and quotients that need more digits are rounded).             *)
(***************************************************************************)
EXTENDS Integers, Sequences, FiniteSets, TLC

(***************************************************************************)
(* Bounds of the model.                                                    *)
(***************************************************************************)
MaxObs == 3

DecimalScale == 4

Unit == 10 ^ DecimalScale

\* Denominations (denomination.rs): three currencies and a cryptocurrency.
Denoms == {"USD", "CZK", "PLZ", "BTC"}

\* Rates offered to the model, as fixed-point values: 0.2, 3 and 7.
\* 1/0.2 is exactly 5; 1/3 is rounded down (0.3333) and 1/7 up (0.1429).
Rates == {Unit \div 5, 3 * Unit, 7 * Unit}

(***************************************************************************)
(* rust_decimal arithmetic.                                                *)
(***************************************************************************)
\* Digits of the fractional part of b (b < Unit), least significant first,
\* are multiplied into a one by one: st.q is the running quotient,
\* st.first the most significant digit dropped so far.
RECURSIVE MulFrac(_, _, _, _)
MulFrac(a, bf, k, st) ==
    IF k = 0 THEN st
    ELSE LET t == a * (bf % 10) + st.q
         IN  MulFrac(a, bf \div 10, k - 1, [q |-> t \div 10, first |-> t % 10])

\* Decimal * Decimal: exact when the product fits the scale, else rounded
\* half up on the first dropped digit.
DecMul(a, b) ==
    LET r == MulFrac(a, b % Unit, DecimalScale, [q |-> 0, first |-> 0])
    IN  a * (b \div Unit) + r.q + (IF r.first >= 5 THEN 1 ELSE 0)

\* Long division of a by b producing DecimalScale fractional digits.
RECURSIVE DivDigits(_, _, _, _)
DivDigits(q, r, b, k) ==
    IF k = 0 THEN [q |-> q, r |-> r]
    ELSE DivDigits(q * 10 + ((r * 10) \div b), (r * 10) % b, b, k - 1)

\* Decimal / Decimal (b > 0): the quotient is rounded to the nearest value
\* of the scale, ties to even.
DecDiv(a, b) ==
    LET d == DivDigits(a \div b, a % b, b, DecimalScale)
    IN  IF 2 * d.r > b \/ (2 * d.r = b /\ d.q % 2 = 1) THEN d.q + 1 ELSE d.q

(***************************************************************************)
(* MultiplyDecimal (common_currency.rs 20-67).                             *)
(***************************************************************************)
Abs(x) == IF x < 0 THEN -x ELSE x

Finite(x) == [kind |-> "Finite", val |-> x]

Infinite == [kind |-> "Infinite", val |-> 0]

\* partial_cmp(a, b) = Less
Less(a, b) ==
    CASE a.kind = "Infinite" /\ b.kind = "Finite"   -> FALSE
      [] a.kind = "Finite"   /\ b.kind = "Infinite" -> TRUE
      [] a.kind = "Infinite" /\ b.kind = "Infinite" -> FALSE
      [] OTHER                                      -> a.val < b.val

\* FloatMeasure::zero
zero == Finite(Unit)

\* partial_cmp: the Ordering of self against other
partial_cmp(self, other) ==
    CASE self.kind = "Infinite" /\ other.kind = "Finite"   -> "Greater"
      [] self.kind = "Finite"   /\ other.kind = "Infinite" -> "Less"
      [] self.kind = "Infinite" /\ other.kind = "Infinite" -> "Equal"
      [] OTHER -> IF self.val < other.val THEN "Less"
                  ELSE IF self.val > other.val THEN "Greater" ELSE "Equal"

\* add that treats Infinite as the identity instead of absorbing.
addSkippingInfinite(a, b) ==
    IF a.kind = "Finite" /\ b.kind = "Finite"
    THEN Finite(DecMul(a.val, b.val))
    ELSE IF a.kind = "Finite" THEN a ELSE b

\* impl Add for MultiplyDecimal: multiplication
add(a, b) ==
    IF a.kind = "Finite" /\ b.kind = "Finite"
    THEN Finite(DecMul(a.val, b.val))
    ELSE Infinite

(***************************************************************************)
(* ExchangeRate (exchange_rate.rs) and the graph of in_common_currency.    *)
(***************************************************************************)
ExchangeRate == [from : Denoms, to : Denoms, rate : Rates]

\* The pairs (from, to) the model's converters quote: a triangle of
\* currencies, and the cryptocurrency against one of them.
QuotedPairs ==
    {<<"USD", "CZK">>, <<"CZK", "PLZ">>, <<"PLZ", "USD">>, <<"PLZ", "BTC">>}

\* The observations the model offers.
Observations == {c \in ExchangeRate : <<c.from, c.to>> \in QuotedPairs}

\* unique_denominations: both endpoints of every observation
unique_denominations(conversions) ==
    {conversions[k].from : k \in DOMAIN conversions}
        \cup {conversions[k].to : k \in DOMAIN conversions}

\* EdgesOf with the two weights exchanged.
EdgesOfSwapped(conversion) ==
    << [source |-> conversion.to, target |-> conversion.from,
        weight |-> Finite(DecDiv(Unit, conversion.rate))],
       [source |-> conversion.from, target |-> conversion.to,
        weight |-> Finite(conversion.rate)] >>

\* The two edges one observation contributes: to -> from weighted rate, then
\* from -> to weighted 1.0 / rate.
EdgesOf(conversion) ==
    << [source |-> conversion.to, target |-> conversion.from,
        weight |-> Finite(conversion.rate)],
       [source |-> conversion.from, target |-> conversion.to,
        weight |-> Finite(DecDiv(Unit, conversion.rate))] >>

\* conversion_tuples: flat_map of EdgesOf over the observations, in order
RECURSIVE conversion_tuples(_)
conversion_tuples(conversions) ==
    IF conversions = << >> THEN << >>
    ELSE EdgesOf(Head(conversions)) \o conversion_tuples(Tail(conversions))

\* Graph with the first observation dropped when the second one repeats it.
GraphMerged(conversions) ==
    [nodes |-> unique_denominations(conversions),
     edges |-> conversion_tuples(
                   IF Len(conversions) >= 2 /\ conversions[1] = conversions[2]
                   THEN Tail(conversions) ELSE conversions)]

\* The graph g: one node per unique denomination, the edges in insertion
\* order.  Node indices come from a HashSet iteration and only name the
\* slots of the vectors, so the vectors are indexed by denomination.
Graph(conversions) ==
    [nodes |-> unique_denominations(conversions),
     edges |-> conversion_tuples(conversions)]

(***************************************************************************)
(* bellman_ford (common_currency.rs 69-114).  st holds the local vectors   *)
(* distance and predecessor and the flag did_update.                       *)
(***************************************************************************)
\* Lines 75-80: the vectors before the first pass.
InitVectors(g, source) ==
    [distance    |-> [n \in g.nodes |-> IF n = source THEN zero ELSE Infinite],
     predecessor |-> [n \in g.nodes |-> "None"],
     did_update  |-> FALSE]

\* Update that writes the candidate whenever it differs from distance[j].
UpdateWhenDifferent(st, i, j, candidate) ==
    IF candidate # st.distance[j]
    THEN [distance    |-> [st.distance EXCEPT ![j] = candidate],
          predecessor |-> [st.predecessor EXCEPT ![j] = i],
          did_update  |-> TRUE]
    ELSE st

\* Lines 88-92: the update of slot j when candidate = distance[i] + w is
\* less than distance[j].
Update(st, i, j, candidate) ==
    IF Less(candidate, st.distance[j])
    THEN [distance    |-> [st.distance EXCEPT ![j] = candidate],
          predecessor |-> [st.predecessor EXCEPT ![j] = i],
          did_update  |-> TRUE]
    ELSE st

\* Lines 85-92: the body of the inner loop for one edge.
RelaxEdge(st, edge) ==
    Update(st, edge.source, edge.target, add(st.distance[edge.source], edge.weight))

\* Lines 84-93: one pass over edge_references(), in edge order, from edge k.
RECURSIVE RelaxAll(_, _, _)
RelaxAll(st, edges, k) ==
    IF k > Len(edges) THEN st
    ELSE RelaxAll(RelaxEdge(st, edges[k]), edges, k + 1)

\* One pass for every node.
MaxPassesPerNode(g) == Cardinality(g.nodes)

\* The number of passes the loop "for _ in 1..g.node_count()" allows.
MaxPasses(g) == IF Cardinality(g.nodes) = 0 THEN 0 ELSE Cardinality(g.nodes) - 1

\* Lines 82-97: up to `remaining` passes; lines 94-96 stop the loop after a
\* pass without update.
RECURSIVE RelaxPasses(_, _, _), AfterPass(_, _, _)
RelaxPasses(st, g, remaining) ==
    IF remaining = 0 THEN st
    ELSE AfterPass(RelaxAll([st EXCEPT !.did_update = FALSE], g.edges, 1), g, remaining)

AfterPass(after, g, remaining) ==
    IF ~after.did_update THEN after ELSE RelaxPasses(after, g, remaining - 1)

\* Line 103: the condition under which the check pass warns about an edge.
StillImproves(distance, edge) ==
    Less(add(distance[edge.source], edge.weight), distance[edge.target])

\* Lines 99-111: the edges for which the check pass calls warn!.
NegCycleWarnings(g, distance) ==
    {k \in DOMAIN g.edges : StillImproves(distance, g.edges[k])}

\* AfterCheck giving up on a warning: no distance is reported.
AfterCheckBreak(distance, warned) ==
    IF warned # {} THEN [n \in DOMAIN distance |-> Infinite] ELSE distance

\* Lines 99-113: what the function returns once the check pass is over: the
\* warnings are only logged ("//break true" is commented out) and the
\* distance vector is returned as it stands.
AfterCheck(distance, warned) == distance

\* Lines 99-113, with the log kept beside the returned vector.
Returned(distance, warned) ==
    [distance |-> AfterCheck(distance, warned), warnings |-> warned]

\* Lines 99-113: the check pass over the distances the passes left.
CheckPass(g, distance) == Returned(distance, NegCycleWarnings(g, distance))

bellman_ford(g, source) ==
    CheckPass(g, RelaxPasses(InitVectors(g, source), g, MaxPasses(g)).distance)

(***************************************************************************)
(* in_common_currency (common_currency.rs 167-231).                        *)
(***************************************************************************)
\* FilterFinite keeping every node, an Infinite cost becoming 0.
FilterFiniteZero(nodes, costs) ==
    [d \in nodes |-> IF costs[d].kind = "Finite" THEN costs[d].val ELSE 0]

\* Lines 221-230: the Finite costs, keyed by denomination.
FilterFinite(nodes, costs) ==
    [d \in {n \in nodes : costs[n].kind = "Finite"} |-> costs[d].val]

NoTable == << >>

\* Lines 216-230: the costs bf of the solver are turned into the table.
Tabulate(g, bf) ==
    [outcome  |-> "returned",
     cause    |-> "none",
     table    |-> FilterFinite(g.nodes, bf.distance),
     warnings |-> bf.warnings]

\* The call ends in a panic.
Panicked(why) ==
    [outcome |-> "panicked", cause |-> why, table |-> NoTable, warnings |-> {}]

\* Lines 214-230: the solver is started at base's node;
\* denomination_to_node[base] panics when base is no node.
SolveFrom(g, b) ==
    IF b \notin g.nodes
    THEN Panicked("base")
    ELSE Tabulate(g, bellman_ford(g, b))

\* Line 203: dec!(1.0) / conversion.rate panics when the rate is 0.
DividesByZero(conversions) ==
    \E k \in DOMAIN conversions : conversions[k].rate = 0

\* The outcome of one call: the table and the warnings logged on the way,
\* or the panic that ends it.
in_common_currency(conversions, b) ==
    IF DividesByZero(conversions)
    THEN Panicked("division")
    ELSE SolveFrom(Graph(conversions), b)

(***************************************************************************)
(* model_and_show (main.rs 167-405) and what it calls.                     *)
(***************************************************************************)
\* Denomination::Currency { .. } or another variant (denomination.rs)
IsCurrency(d) == d # "BTC"

\* The holding is valued as if its rate were 1 when the table has no rate.
ValueAssetAtPar(acc, asset, prices) ==
    IF asset.denomination \in DOMAIN prices
    THEN [acc EXCEPT !.total = @ + DecMul(asset.amount, prices[asset.denomination])]
    ELSE [acc EXCEPT !.total = @ + asset.amount,
                     !.log = Append(@, asset.denomination)]

\* Lines 200-206: one holding is added to the total when the table has its
\* denomination, and is only logged ("not connected to common currency")
\* when it has not.
ValueAsset(acc, asset, prices) ==
    IF asset.denomination \in DOMAIN prices
    THEN [acc EXCEPT !.total = @ + DecMul(asset.amount, prices[asset.denomination])]
    ELSE [acc EXCEPT !.log = Append(@, asset.denomination)]

\* Lines 199-207: the holdings of one snapshot, from the k-th on.
RECURSIVE ValueSnapshot(_, _, _, _)
ValueSnapshot(acc, snapshot, k, prices) ==
    IF k > Len(snapshot) THEN acc
    ELSE ValueSnapshot(ValueAsset(acc, snapshot[k], prices), snapshot, k + 1, prices)

\* Lines 196-208: all snapshots, from the k-th on.
RECURSIVE ValueAll(_, _, _, _)
ValueAll(acc, snapshots, k, prices) ==
    IF k > Len(snapshots) THEN acc
    ELSE ValueAll(ValueSnapshot(acc, snapshots[k].snapshot, 1, prices),
                  snapshots, k + 1, prices)

\* Lines 221-224: snapshot_by_id; a later snapshot with the same id replaces
\* an earlier one.
snapshot_by_id(snapshots) ==
    [id \in {snapshots[k].id : k \in DOMAIN snapshots} |->
        snapshots[CHOOSE k \in DOMAIN snapshots :
                     /\ snapshots[k].id = id
                     /\ \A l \in DOMAIN snapshots : snapshots[l].id = id => l <= k].snapshot]

\* Lines 231-235: the holdings of one snapshot; in_common_currency[..]
\* panics when the denomination has no rate.
RECURSIVE AddUpSnapshot(_, _, _, _)
AddUpSnapshot(acc, snapshot, k, prices) ==
    IF acc.panic # "none" \/ k > Len(snapshot) THEN acc
    ELSE IF snapshot[k].denomination \notin DOMAIN prices
         THEN [acc EXCEPT !.panic = "price"]
         ELSE AddUpSnapshot(
                [acc EXCEPT !.total = @ + DecMul(prices[snapshot[k].denomination],
                                                 snapshot[k].amount)],
                snapshot, k + 1, prices)

\* Lines 228-236: the named accounts, from the k-th on; snapshot_by_id[..]
\* panics when no snapshot has the id.
RECURSIVE AddUpAccounts(_, _, _, _, _)
AddUpAccounts(acc, account_names, k, by_id, prices) ==
    IF acc.panic # "none" \/ k > Len(account_names) THEN acc
    ELSE IF account_names[k] \notin DOMAIN by_id
         THEN [acc EXCEPT !.panic = "source"]
         ELSE AddUpAccounts(AddUpSnapshot(acc, by_id[account_names[k]], 1, prices),
                            account_names, k + 1, by_id, prices)

\* Line 237: Decimal::floor of a value that is not negative
Floor(x) == (x \div Unit) * Unit

\* Lines 226-238: the closure add_up_amounts.
add_up_amounts(account_names, by_id, prices) ==
    [AddUpAccounts([total |-> 0, panic |-> "none"], account_names, 1, by_id, prices)
        EXCEPT !.total = Floor(@)]

\* model.rs 12-14 and differential.rs 6-10: decimal_log(1 + yearly_yield),
\* for the yields of the model: ln 1 = 0, ln 1.03 = 0.02956.
LogOnePlus(yearly_yield) ==
    IF yearly_yield = 0 THEN 0 ELSE (2956 * Unit + 50000) \div 100000

\* model.rs 7-9: hack_pow(1 + yearly_yield, -deadline) for the deadline of
\* 75 years: 1^-75 = 1, 1.03^-75 = 0.10895.
PowOnePlus(yearly_yield) ==
    IF yearly_yield = 0 THEN Unit ELSE (10895 * Unit + 50000) \div 100000

\* Decimal is signed: the sign of a product or quotient is that of its
\* operands, its digits those of their magnitudes.
Sign(x) == IF x < 0 THEN -1 ELSE 1

SignedMul(a, b) == Sign(a) * Sign(b) * DecMul(Abs(a), Abs(b))

SignedDiv(a, b) == Sign(a) * Sign(b) * DecDiv(Abs(a), Abs(b))

\* A value of a projection, or the panic that ends it: "division" for a
\* Decimal division by zero, "logarithm" for Decimal::from_f64(..).unwrap()
\* of a logarithm that is NaN or infinite.
Value(v) == [panic |-> "none", value |-> v]

Panic(why) == [panic |-> why, value |-> 0]

\* model.rs 17-20: deadline_target; Decimal division panics on a zero
\* divisor.
deadline_target(yearly_yield, monthly_goal) ==
    IF LogOnePlus(yearly_yield) = 0
    THEN Panic("division")
    ELSE Value(DecMul(DecDiv(monthly_goal * 12, LogOnePlus(yearly_yield)),
                      Unit - PowOnePlus(yearly_yield)))

\* differential.rs 6-10: decimal_log of a computed argument.  The argument
\* is kept in place of its logarithm, which has the sign of argument - 1;
\* the logarithm of an argument that is not positive is NaN or -inf, and
\* from_f64 of it is None.
decimal_log(argument) ==
    IF argument <= 0 THEN Panic("logarithm") ELSE Value(argument)

\* differential.rs 43-47: c = total - yearly costs / i'
Durability_c(total, yearly_yield, monthly_costs) ==
    total - DecDiv(monthly_costs * 12, LogOnePlus(yearly_yield))

\* differential.rs 48: decimal_log(-c / (c * i')) / i'; the value is the
\* argument of the logarithm.
DurabilityOf(c, i_prime) ==
    IF SignedMul(c, i_prime) = 0 THEN Panic("division")
    ELSE decimal_log(SignedDiv(-c, SignedMul(c, i_prime)))

\* differential.rs 38-49: get_investment_durability; c / i_prime (line 47)
\* panics when i' is 0.
get_investment_durability(total, yearly_yield, monthly_costs) ==
    IF LogOnePlus(yearly_yield) = 0 THEN Panic("division")
    ELSE DurabilityOf(Durability_c(total, yearly_yield, monthly_costs),
                      LogOnePlus(yearly_yield))

\* differential.rs 19-23: c = total - (-monthly_saving * 12) / i'
SavedUp_c(total, yearly_yield, monthly_saving) ==
    total - SignedDiv(-(monthly_saving * 12), LogOnePlus(yearly_yield))

\* differential.rs 25-33: time_to_reach(f_x) =
\* decimal_log((c / i' - f_x) / (-c)) / i'; the value is the argument of
\* the logarithm.
time_to_reach(c, i_prime, f_x) ==
    IF c = 0 THEN Panic("division")
    ELSE decimal_log(SignedDiv(SignedDiv(c, i_prime) - f_x, -c))

\* differential.rs 12-35: years_until_saved_up_exp; c / i_prime (line 23)
\* panics when i' is 0.
years_until_saved_up_exp(total, yearly_yield, target_number, monthly_saving) ==
    IF LogOnePlus(yearly_yield) = 0 THEN Panic("division")
    ELSE time_to_reach(SavedUp_c(total, yearly_yield, monthly_saving),
                       LogOnePlus(yearly_yield), target_number)

\* model.rs 90: overreach_percentage = (total / target) * 100
OverreachPercentage(total, target) == DecMul(DecDiv(total, target), 100 * Unit)

\* model.rs 88-92: the state chosen by `if target < total`, or the panic
\* of total / target when the target is 0.
FiState(total, target) ==
    IF target.panic # "none" THEN [panic |-> target.panic, state |-> "-"]
    ELSE IF target.value < total
         THEN IF target.value = 0
              THEN [panic |-> "division", state |-> "-"]
              ELSE [panic |-> "none", state |-> "Reached"]
         ELSE [panic |-> "none", state |-> "NotReached"]

\* model.rs 94-106: the branch NotReached: the durability, then the years
\* until saved up; a panic of either ends the call.
NotReached(durability, need_years) ==
    IF durability.panic # "none" THEN [panic |-> durability.panic, state |-> "-"]
    ELSE IF need_years.panic # "none" THEN [panic |-> need_years.panic, state |-> "-"]
    ELSE [panic |-> "none", state |-> "NotReached"]

\* model.rs 73-109: model_fi_info, given the target it computed.
FiInfo(total, yearly_yield, monthly_goal, monthly_saving, target) ==
    IF FiState(total, target).state = "NotReached"
    THEN NotReached(get_investment_durability(total, yearly_yield, monthly_goal),
                    years_until_saved_up_exp(total, yearly_yield, target.value,
                                             monthly_saving))
    ELSE FiState(total, target)

\* model.rs 73-109: model_fi_info (the deadline is the 75 years of
\* main.rs 396).
model_rs_model_fi_info(total, yearly_yield, monthly_goal, monthly_saving) ==
    FiInfo(total, yearly_yield, monthly_goal, monthly_saving,
           deadline_target(yearly_yield, monthly_goal))

\* main.rs 735-746 and 689: get_perpetual of one denomination and
\* asset_to_money of its result (42-49).
PerpetualPanic(prices, denomination) ==
    IF denomination \notin DOMAIN prices THEN "price"
    ELSE IF ~IsCurrency(denomination) THEN "money"
    ELSE "none"

\* main.rs 749-781 called from 701-708: to_common of the total, of the goal
\* and of the monthly saving, then the projection.
CellPanic(prices, total, yearly_yield, goal, monthly_saving) ==
    IF total.denomination \notin DOMAIN prices THEN "price"
    ELSE IF goal.denomination \notin DOMAIN prices THEN "price"
    ELSE IF monthly_saving.denomination \notin DOMAIN prices THEN "price"
    ELSE model_rs_model_fi_info(DecMul(prices[total.denomination], total.amount),
                                yearly_yield,
                                DecMul(prices[goal.denomination], goal.amount),
                                DecMul(prices[monthly_saving.denomination],
                                       monthly_saving.amount)).panic

\* main.rs 696-727: the row of one goal: asset_to_money(goal), then one
\* cell per yield; the first panic ends the row.
RECURSIVE RowPanic(_, _, _, _, _, _)
RowPanic(prices, total, yields, k, goal, monthly_saving) ==
    IF k = 0 THEN (IF IsCurrency(goal.denomination)
                   THEN RowPanic(prices, total, yields, 1, goal, monthly_saving)
                   ELSE "money")
    ELSE IF k > Len(yields) THEN "none"
    ELSE IF CellPanic(prices, total, yields[k], goal, monthly_saving) # "none"
         THEN CellPanic(prices, total, yields[k], goal, monthly_saving)
         ELSE RowPanic(prices, total, yields, k + 1, goal, monthly_saving)

\* main.rs 696-727: the rows of the goals, from the k-th on.
RECURSIVE RowsPanic(_, _, _, _)
RowsPanic(prices, total, modelling, k) ==
    IF k > Len(modelling.monthly_targets) THEN "none"
    ELSE IF RowPanic(prices, total, modelling.yearly_yields, 0,
                     modelling.monthly_targets[k], modelling.monthly_saving) # "none"
         THEN RowPanic(prices, total, modelling.yearly_yields, 0,
                       modelling.monthly_targets[k], modelling.monthly_saving)
         ELSE RowsPanic(prices, total, modelling, k + 1)

\* main.rs 680-692: the panics the row of perpetuals can end with: the
\* denominations of the goals are visited in the order of a HashSet, so
\* any denomination that panics may be the first.
PerpetualsPanics(prices, modelling) ==
    IF modelling.yearly_yields = << >> THEN {}
    ELSE {PerpetualPanic(prices, modelling.monthly_targets[k].denomination) :
             k \in DOMAIN modelling.monthly_targets} \ {"none"}

\* main.rs 647-729: the panics render_table can end with ("none": the
\* table is printed).
render_table(prices, total, modelling) ==
    IF PerpetualsPanics(prices, modelling) # {}
    THEN PerpetualsPanics(prices, modelling)
    ELSE {RowsPanic(prices, total, modelling, 1)}

(***************************************************************************)
(* State.  all_conversions, base, table and warnings are the inputs and    *)
(* results of in_common_currency; the others belong to model_and_show.     *)
(***************************************************************************)
VARIABLES all_conversions, base, pc, table, warnings,
          config, source_snapshots, total_amount, log, panic, portfolio_total,
          projection, invocation, measure, flex

vars == <<all_conversions, base, pc, table, warnings,
          config, source_snapshots, total_amount, log, panic, portfolio_total,
          projection, invocation, measure, flex>>

main_vars == <<config, source_snapshots, total_amount, log, panic, portfolio_total>>

\* projection: the arguments and the result of one call of a projection
\* function; invocation: the locals of the running calls of bellman_ford;
\* measure: the operands and the result of one operation on MultiplyDecimal;
\* flex: the state of one use of the Flex Web Service client.
call_vars == <<projection, invocation, measure, flex>>

NoProjection == << >>

NoInvocation == << >>

NoMeasure == << >>

NoFlex == << >>

ObservationLists == UNION {[1..n -> Observations] : n \in 0..MaxObs}

NoBase == "-"

NoConfig == [common_currency |-> NoBase]

(***************************************************************************)
(* Spec: calls of in_common_currency on every list of observations.        *)
(***************************************************************************)
Init ==
    /\ all_conversions \in ObservationLists
    /\ base = NoBase
    /\ pc = "call"
    /\ table = NoTable
    /\ warnings = {}
    /\ config = NoConfig
    /\ source_snapshots = << >>
    /\ total_amount = 0
    /\ log = << >>
    /\ panic = "none"
    /\ portfolio_total = 0
    /\ projection = NoProjection
    /\ invocation = NoInvocation
    /\ measure = NoMeasure
    /\ flex = NoFlex

\* in_common_currency(&all_conversions, &base), for a base of the caller's
\* choice
Call ==
    /\ pc = "call"
    /\ \E b \in Denoms :
          \E r \in {in_common_currency(all_conversions, b)} :
              /\ base' = b
              /\ pc' = r.outcome
              /\ table' = r.table
              /\ warnings' = r.warnings
    /\ UNCHANGED all_conversions
    /\ UNCHANGED main_vars
    /\ UNCHANGED call_vars

Next == Call

Spec == Init /\ [][Next]_vars

(***************************************************************************)
(* SpecMain: runs of model_and_show.                                       *)
(***************************************************************************)
MaxAssets == 2

\* Asset (asset.rs): the holdings a source can report
Holdings == {[amount |-> 2 * Unit, denomination |-> "USD"],
             [amount |-> 2 * Unit, denomination |-> "PLZ"],
             [amount |-> Unit + Unit \div 2, denomination |-> "BTC"]}

Snapshots == UNION {[1..n -> Holdings] : n \in 0..MaxAssets}

\* Two sources: "broker", and "cash" holding nothing, dollars or bitcoin.
SourceSnapshotLists ==
    {<< [id |-> "broker", snapshot |-> s1], [id |-> "cash", snapshot |-> s2] >> :
        s1 \in Snapshots,
        s2 \in {s \in Snapshots : Len(s) <= 1 /\ \A k \in DOMAIN s :
                                     s[k].denomination \in {"USD", "BTC"}}}

\* Option<T>: None, or Some of one value
None == << >>

Some(x) == <<x>>

\* config.cfiresim (config.rs 65-77), as far as model_and_show reads it
CFireSimConfigs ==
    {[portfolio |-> <<"broker">>, adjustment |-> a] :
        a \in {<< >>, << [source |-> <<"cash">>] >>}}
    \cup {[portfolio |-> <<"broker", "cash">>, adjustment |-> << >>]}

\* config.modelling (config.rs 34-41): yields of 0 and 3 %, at most one
\* monthly target of 0.001 or 1 unit
ModellingConfigs ==
    [monthly_saving  : {[amount |-> Unit, denomination |-> d] : d \in {"USD", "PLZ"}},
     yearly_yields   : {<< >>, <<0>>, <<(3 * Unit) \div 100>>},
     monthly_targets : {<< >>, << [amount |-> Unit \div 1000, denomination |-> "USD"] >>}
        \cup {<< [amount |-> Unit, denomination |-> d] >> :
                 d \in {"USD", "PLZ", "BTC"}}]

Configs ==
    [common_currency : {"USD", "CZK"},
     cfiresim        : {None} \cup {Some(c) : c \in CFireSimConfigs},
     modelling       : ModellingConfigs]

\* The converters quote at most one rate, of 0.2 or 3, in the runs of
\* model_and_show.
MainObservationLists ==
    {<< >>} \cup {<<c>> : c \in {o \in Observations : o.rate <= 3 * Unit}}

InitMain ==
    /\ all_conversions \in MainObservationLists
    /\ config \in Configs
    /\ source_snapshots \in SourceSnapshotLists
    /\ base = config.common_currency
    /\ pc = "start"
    /\ table = NoTable
    /\ warnings = {}
    /\ total_amount = 0
    /\ log = << >>
    /\ panic = "none"
    /\ portfolio_total = 0
    /\ projection = NoProjection
    /\ invocation = NoInvocation
    /\ measure = NoMeasure
    /\ flex = NoFlex

\* Lines 172-214: the table is computed and the holdings are added up.
Valuate ==
    /\ pc = "start"
    /\ \E r \in {in_common_currency(all_conversions, base)} :
          IF r.outcome = "panicked"
          THEN /\ pc' = "panicked"
               /\ panic' = r.cause
               /\ UNCHANGED <<table, warnings, total_amount, log>>
          ELSE \E acc \in {ValueAll([total |-> 0, log |-> << >>],
                                    source_snapshots, 1, r.table)} :
                   /\ pc' = "valued"
                   /\ table' = r.table
                   /\ warnings' = r.warnings
                   /\ total_amount' = acc.total
                   /\ log' = acc.log
                   /\ UNCHANGED panic
    /\ UNCHANGED <<all_conversions, base, config, source_snapshots, portfolio_total>>
    /\ UNCHANGED call_vars

\* Lines 216-392 when config.cfiresim is None: nothing is posted.
SkipCfiresim ==
    /\ pc = "valued"
    /\ config.cfiresim = None
    /\ pc' = "posted"
    /\ UNCHANGED <<all_conversions, base, table, warnings, config, source_snapshots,
                   total_amount, log, panic, portfolio_total>>
    /\ UNCHANGED call_vars

\* Lines 216-392: the portfolio and the first adjustment are added up and
\* posted; the request succeeds or fails (panic!("error response")).
PostCfiresim ==
    /\ pc = "valued"
    /\ config.cfiresim # None
    /\ \E portfolio \in {add_up_amounts(config.cfiresim[1].portfolio,
                                        snapshot_by_id(source_snapshots), table)} :
          IF portfolio.panic # "none"
          THEN /\ pc' = "panicked"
               /\ panic' = portfolio.panic
               /\ UNCHANGED portfolio_total
          ELSE \E adjustment \in
                   {IF config.cfiresim[1].adjustment = << >>
                    THEN [total |-> 0, panic |-> "none"]
                    ELSE add_up_amounts(config.cfiresim[1].adjustment[1].source,
                                        snapshot_by_id(source_snapshots), table)} :
                   IF adjustment.panic # "none"
                   THEN /\ pc' = "panicked"
                        /\ panic' = adjustment.panic
                        /\ UNCHANGED portfolio_total
                   ELSE \E ok \in BOOLEAN :
                            /\ pc' = IF ok THEN "posted" ELSE "panicked"
                            /\ panic' = IF ok THEN "none" ELSE "http"
                            /\ portfolio_total' = portfolio.total
    /\ UNCHANGED <<all_conversions, base, table, warnings, config, source_snapshots,
                   total_amount, log>>
    /\ UNCHANGED call_vars

\* Lines 394-404: the table of projections is rendered and the total
\* returned.
RenderTable ==
    /\ pc = "posted"
    /\ \E p \in render_table(table, [amount |-> total_amount, denomination |-> base],
                             config.modelling) :
          /\ pc' = IF p = "none" THEN "done" ELSE "panicked"
          /\ panic' = p
    /\ UNCHANGED <<all_conversions, base, table, warnings, config, source_snapshots,
                   total_amount, log, portfolio_total>>
    /\ UNCHANGED call_vars

NextMain == Valuate \/ SkipCfiresim \/ PostCfiresim \/ RenderTable

SpecMain == InitMain /\ [][NextMain]_vars

(***************************************************************************)
(* SpecQuotes: the converters build the observations from the rates they   *)
(* are quoted, and the list is handed to in_common_currency.               *)
(***************************************************************************)
MaxQuotes == 2

\* The rates a service can quote: 0 as well as 0.2 and 3.
QuotedRates == {0, Unit \div 5, 3 * Unit}

\* fixer_converter.rs 53-61 and main.rs 559-570: the struct literal
\* ExchangeRate { from, to, rate }; exchange_rate.rs has no constructor and
\* no check of the rate.
NewExchangeRate(source, target, quoted) ==
    [from |-> source, to |-> target, rate |-> quoted]

InitQuotes ==
    /\ all_conversions = << >>
    /\ base = NoBase
    /\ pc = "quoting"
    /\ table = NoTable
    /\ warnings = {}
    /\ config = NoConfig
    /\ source_snapshots = << >>
    /\ total_amount = 0
    /\ log = << >>
    /\ panic = "none"
    /\ portfolio_total = 0
    /\ projection = NoProjection
    /\ invocation = NoInvocation
    /\ measure = NoMeasure
    /\ flex = NoFlex

\* One more quote is turned into an observation of the list.
Quote ==
    /\ pc = "quoting"
    /\ Len(all_conversions) < MaxQuotes
    /\ \E pair \in QuotedPairs : \E quoted \in QuotedRates :
          all_conversions' =
              Append(all_conversions, NewExchangeRate(pair[1], pair[2], quoted))
    /\ UNCHANGED <<base, pc, table, warnings>>
    /\ UNCHANGED main_vars
    /\ UNCHANGED call_vars

\* main.rs 172-193: the list is handed to in_common_currency; a panic of
\* the call ends the run.
Solve ==
    /\ pc = "quoting"
    /\ \E b \in {"USD", "CZK"} :
          \E r \in {in_common_currency(all_conversions, b)} :
              /\ base' = b
              /\ pc' = r.outcome
              /\ panic' = r.cause
              /\ table' = r.table
              /\ warnings' = r.warnings
    /\ UNCHANGED <<all_conversions, config, source_snapshots, total_amount, log,
                   portfolio_total>>
    /\ UNCHANGED call_vars

NextQuotes == Quote \/ Solve

SpecQuotes == InitQuotes /\ [][NextQuotes]_vars

(***************************************************************************)
(* SpecProjection: calls of the projection functions of model.rs and       *)
(* differential.rs on amounts of a few units.                              *)
(***************************************************************************)
MaxUnits == 3

\* Yearly yields of 0 and of 3 %
Yields == {0, (3 * Unit) \div 100}

\* Monthly goals (or costs) of 0, 0.01 and 1
Goals == {0, Unit \div 100, Unit}

\* Monthly savings of 0 and 0.1
Savings == {0, Unit \div 10}

\* Totals and targets: whole units, and the targets of the goals
Totals ==
    {k * Unit : k \in 0..MaxUnits}
        \cup {deadline_target(y, g).value : y \in Yields \ {0}, g \in Goals}

NoResult == [panic |-> "none"]

InitProjection ==
    /\ projection \in [total : Totals, yearly_yield : Yields, monthly_goal : Goals,
                        monthly_saving : Savings, target_number : Totals,
                        called : {"none"}, result : {NoResult}]
    /\ pc = "call"
    /\ all_conversions = << >>
    /\ base = NoBase
    /\ table = NoTable
    /\ warnings = {}
    /\ config = NoConfig
    /\ source_snapshots = << >>
    /\ total_amount = 0
    /\ log = << >>
    /\ panic = "none"
    /\ portfolio_total = 0
    /\ invocation = NoInvocation
    /\ measure = NoMeasure
    /\ flex = NoFlex

\* The call returns or panics; nothing else changes.
Finish(function, outcome) ==
    /\ projection' = [projection EXCEPT !.called = function, !.result = outcome]
    /\ pc' = IF outcome.panic = "none" THEN "returned" ELSE "panicked"
    /\ UNCHANGED <<all_conversions, base, table, warnings, invocation, measure, flex>>
    /\ UNCHANGED main_vars

\* model.rs 73-109: model_fi_info(total, yearly_yield, monthly_goal,
\* monthly_saving, deadline); the result carries the target and, when the
\* state is Reached, the overreach_percentage.
ModelFiInfo ==
    /\ pc = "call"
    /\ \E r \in {model_rs_model_fi_info(projection.total, projection.yearly_yield,
                                        projection.monthly_goal,
                                        projection.monthly_saving)} :
          \E target \in {deadline_target(projection.yearly_yield,
                                         projection.monthly_goal)} :
              Finish("model_fi_info",
                     [panic |-> r.panic,
                      state |-> r.state,
                      need_to_last_until_deadline |-> target.value,
                      overreach_percentage |->
                          IF r.state = "Reached"
                          THEN OverreachPercentage(projection.total, target.value)
                          ELSE 0])

\* differential.rs 38-49: get_investment_durability(total, yearly_yield,
\* monthly_costs)
InvestmentDurability ==
    /\ pc = "call"
    /\ Finish("get_investment_durability",
              get_investment_durability(projection.total, projection.yearly_yield,
                                        projection.monthly_goal))

\* differential.rs 12-35: years_until_saved_up_exp(total, yearly_yield,
\* target_number, monthly_saving)
YearsUntilSavedUp ==
    /\ pc = "call"
    /\ Finish("years_until_saved_up_exp",
              years_until_saved_up_exp(projection.total, projection.yearly_yield,
                                       projection.target_number,
                                       projection.monthly_saving))

NextProjection == ModelFiInfo \/ InvestmentDurability \/ YearsUntilSavedUp

SpecProjection == InitProjection /\ [][NextProjection]_vars

(***************************************************************************)
(* SpecRun: invocations of in_common_currency running side by side, each   *)
(* advancing by one edge at a time.  invocation[p] holds the arguments     *)
(* and the locals of invocation p: where it is (at), the vectors of        *)
(* bellman_ford, the pass and the edge it is at, the warnings logged and   *)
(* the table returned.                                                     *)
(***************************************************************************)
MaxRunObs == 2

Procs == {1, 2}

\* The observations of the runs: two quotes of one pair that disagree, and
\* a quote of two other pairs.
RunObservations ==
    {[from |-> "USD", to |-> "CZK", rate |-> Unit \div 5],
     [from |-> "USD", to |-> "CZK", rate |-> 3 * Unit],
     [from |-> "CZK", to |-> "PLZ", rate |-> Unit \div 5],
     [from |-> "PLZ", to |-> "BTC", rate |-> Unit \div 5]}

RunLists == UNION {[1..n -> RunObservations] : n \in 0..MaxRunObs}

\* What the second invocation is called with: one quote, whose reverse
\* weight 1/3 is rounded.
OtherList == << [from |-> "USD", to |-> "CZK", rate |-> 3 * Unit] >>

\* An invocation that has not started.
Idle(conversions, b) ==
    [conversions |-> conversions, base |-> b, at |-> "idle",
     graph |-> Graph(<< >>),
     distance |-> << >>, predecessor |-> << >>, did_update |-> FALSE,
     pass |-> 0, edge |-> 0, checks |-> 0, warned |-> {}, table |-> NoTable]

InitRun ==
    /\ invocation \in {[p \in Procs |-> IF p = 1 THEN Idle(l, "CZK")
                                                   ELSE Idle(OtherList, "USD")] :
                          l \in RunLists}
    /\ pc = "run"
    /\ all_conversions = << >>
    /\ base = NoBase
    /\ table = NoTable
    /\ warnings = {}
    /\ config = NoConfig
    /\ source_snapshots = << >>
    /\ total_amount = 0
    /\ log = << >>
    /\ panic = "none"
    /\ portfolio_total = 0
    /\ projection = NoProjection
    /\ measure = NoMeasure
    /\ flex = NoFlex

\* The graph invocation p built from its argument (lines 171-209).
GraphOf(p) == invocation[p].graph

\* The vectors of invocation p belong to every invocation whose graph has
\* the same nodes: they are shared.
OwnerShared(inv, p) ==
    CHOOSE q \in Procs :
        /\ DOMAIN inv[q].distance = DOMAIN inv[p].distance
        /\ \A o \in Procs : DOMAIN inv[o].distance = DOMAIN inv[p].distance => q <= o

\* Lines 75-76: predecessor and distance are locals (`let mut`) of the
\* invocation: invocation p reads and writes its own.
Owner(inv, p) == p

\* Lines 75-82: the vectors are set up and the first pass starts; with a
\* single node there is no pass.
Started(call, g) ==
    [call EXCEPT !.graph = g,
                 !.distance = InitVectors(g, call.base).distance,
                 !.predecessor = InitVectors(g, call.base).predecessor,
                 !.at = IF MaxPasses(g) = 0 THEN "check" ELSE "relax",
                 !.pass = IF MaxPasses(g) = 0 THEN 0 ELSE 1,
                 !.checks = IF MaxPasses(g) = 0 THEN 1 ELSE 0,
                 !.edge = 1]

\* Lines 171-216 and 75-82: the graph is built and the vectors are set up;
\* the call panics when a rate is 0 or base is no node.  With a single
\* node there is no pass.
Start(p) ==
    /\ invocation[p].at = "idle"
    /\ invocation' = [invocation EXCEPT ![p] =
          IF DividesByZero(@.conversions)
          THEN [@ EXCEPT !.at = "panicked"]
          ELSE IF @.base \notin Graph(@.conversions).nodes
          THEN [@ EXCEPT !.at = "panicked", !.graph = Graph(invocation[p].conversions)]
          ELSE Started(invocation[p], Graph(@.conversions))]

\* The vectors invocation p works on, with its did_update.
VectorsOf(inv, p) ==
    [distance    |-> inv[Owner(inv, p)].distance,
     predecessor |-> inv[Owner(inv, p)].predecessor,
     did_update  |-> inv[p].did_update]

\* Lines 84-93: one edge of the pass is relaxed.
Relax(p) ==
    /\ invocation[p].at = "relax"
    /\ invocation[p].edge <= Len(GraphOf(p).edges)
    /\ \E st \in {RelaxEdge(VectorsOf(invocation, p),
                            GraphOf(p).edges[invocation[p].edge])} :
          invocation' = [invocation EXCEPT
                            ![Owner(invocation, p)].distance = st.distance,
                            ![Owner(invocation, p)].predecessor = st.predecessor,
                            ![p].did_update = st.did_update,
                            ![p].edge = @ + 1]

\* Lines 82-83 and 94-97: the pass is over; the next one starts unless
\* nothing was updated or |V| - 1 passes are done, and then the check pass
\* starts.
EndPass(p) ==
    /\ invocation[p].at = "relax"
    /\ invocation[p].edge > Len(GraphOf(p).edges)
    /\ invocation' = [invocation EXCEPT ![p] =
          IF ~@.did_update \/ @.pass = MaxPasses(GraphOf(p))
          THEN [@ EXCEPT !.at = "check", !.checks = @ + 1, !.edge = 1]
          ELSE [@ EXCEPT !.pass = @ + 1, !.did_update = FALSE, !.edge = 1]]

\* Lines 99-111: one edge is checked and warned about when it still
\* improves (the edges are visited node by node; nothing is written, so
\* the order does not show).
Check(p) ==
    /\ invocation[p].at = "check"
    /\ invocation[p].edge <= Len(GraphOf(p).edges)
    /\ invocation' = [invocation EXCEPT ![p] =
          [@ EXCEPT !.warned =
                        IF StillImproves(VectorsOf(invocation, p).distance,
                                         GraphOf(p).edges[invocation[p].edge])
                        THEN @ \cup {invocation[p].edge} ELSE @,
                    !.edge = @ + 1]]

\* Lines 113 and 216-230: bellman_ford returns the distances and
\* in_common_currency the table made of them.
Return(p) ==
    /\ invocation[p].at = "check"
    /\ invocation[p].edge > Len(GraphOf(p).edges)
    /\ invocation' = [invocation EXCEPT ![p] =
          [@ EXCEPT !.at = "returned",
                    !.table = FilterFinite(GraphOf(p).nodes,
                                           VectorsOf(invocation, p).distance)]]

\* One step of invocation p.
Step(p) ==
    /\ pc = "run"
    /\ Start(p) \/ Relax(p) \/ EndPass(p) \/ Check(p) \/ Return(p)
    /\ UNCHANGED <<all_conversions, base, pc, table, warnings, projection,
                   measure, flex>>
    /\ UNCHANGED main_vars

NextRun == \E p \in Procs : Step(p)

SpecRun == InitRun /\ [][NextRun]_vars

\* Every invocation that can take a step eventually takes one.
FairRun == \A p \in Procs : WF_vars(Step(p))

SpecRunFair == SpecRun /\ FairRun

(***************************************************************************)
(* SpecMeasure: one operation of MultiplyDecimal (common_currency.rs       *)
(* 20-67) on every pair of values the solver can hold.                     *)
(***************************************************************************)
\* The operands: Infinite, and Finite of zero, of the whole numbers the
\* rates use and of rounded reciprocals.
Measures ==
    {Infinite}
        \cup {Finite(x) : x \in {0, Unit \div 5, DecDiv(Unit, 3 * Unit),
                                  DecDiv(Unit, 7 * Unit)}}
        \cup {Finite(k * Unit) : k \in {1, 3, 5, 7}}

InitMeasure ==
    /\ measure \in [self : Measures, other : Measures,
                    called : {"none"}, result : {<< >>}]
    /\ pc = "call"
    /\ all_conversions = << >>
    /\ base = NoBase
    /\ table = NoTable
    /\ warnings = {}
    /\ config = NoConfig
    /\ source_snapshots = << >>
    /\ total_amount = 0
    /\ log = << >>
    /\ panic = "none"
    /\ portfolio_total = 0
    /\ projection = NoProjection
    /\ invocation = NoInvocation
    /\ flex = NoFlex

Operate(function, outcome) ==
    /\ pc = "call"
    /\ measure' = [measure EXCEPT !.called = function, !.result = outcome]
    /\ pc' = "returned"
    /\ UNCHANGED <<all_conversions, base, table, warnings, projection,
                   invocation, flex>>
    /\ UNCHANGED main_vars

\* self + other
CallAdd == Operate("add", add(measure.self, measure.other))

\* self.partial_cmp(other)
CallPartialCmp ==
    Operate("partial_cmp", partial_cmp(measure.self, measure.other))

NextMeasure == CallAdd \/ CallPartialCmp

SpecMeasure == InitMeasure /\ [][NextMeasure]_vars

(***************************************************************************)
(* The Flex Web Service client (ibflex.rs).  A response text is modelled   *)
(* by whether it deserializes and by the elements it holds.                *)
(***************************************************************************)
Ok(value) == [ok |-> TRUE, value |-> value]

\* error is a FlexError, an UnhandledResponse, or [kind |-> ...] for an error
\* of reqwest or serde_xml_rs, IBFlexError::HttpError or ::ParseError.
Err(error) == [ok |-> FALSE, error |-> error]

\* OpenPosition: the attributes take_snapshot reads.  AssetCategory, Side
\* and LevelOfDetail are enums of one variant each.
NewOpenPosition(currency, symbol, multiplier, rate, position, issuer, expiry, put_call) ==
    [currency |-> currency, asset_category |-> "Stock", symbol |-> symbol,
     multiplier |-> multiplier, fx_rate_to_base |-> rate,
     position |-> position, side |-> "Long", level_of_detail |-> "Summary",
     issuer |-> issuer, expiry |-> expiry, put_call |-> put_call]

\* FlexStatement: its OpenPositions element, open_position absent or a list
NewFlexStatement(open_position) ==
    [open_positions |-> [open_position |-> open_position]]

\* FlexStatements: the count attribute and the FlexStatement elements
NewFlexStatements(count, flex_statements) ==
    [count |-> count, flex_statements |-> flex_statements]

\* The statements of flex_query_response_valid (ibflex_test.rs 55-132)
ValidStatements ==
    NewFlexStatements(1, <<NewFlexStatement(Some(
        << NewOpenPosition("USD", "ABCD", Unit, 8903 * (Unit \div 10000),
                           1111 * Unit, "", "", ""),
           NewOpenPosition("USD", "EFGH", Unit, 8903 * (Unit \div 10000),
                           1112 * Unit, "", "", "") >>))>>)

FlexError(code, message) == [code |-> code, message |-> message]

\* FlexQueryResponse::Error and FlexQueryResponse::Success
Error(error) == [kind |-> "Error", error |-> error]

Success(success) == [kind |-> "Success", success |-> success]

FlexQuerySuccess(response_type, flex_statements) ==
    [response_type |-> response_type, flex_statements |-> flex_statements]

\* serde_xml_rs::from_str into FlexQueryResponseXml: the elements ErrorCode,
\* ErrorMessage and FlexStatements and the attribute type become the fields
\* error_code, error_message, flex_statements and response_type.
from_str(text) ==
    IF ~text.well_formed THEN Err([kind |-> "serde"])
    ELSE Ok([error_code |-> text.ErrorCode,
             error_message |-> text.ErrorMessage,
             response_type |-> text.type,
             flex_statements |-> text.FlexStatements])

\* parse_flex_query_response with its second match arm also taken when the
\* error fields are present.
ClassifyLenient(xml) ==
    IF /\ xml.error_code # None /\ xml.error_message # None
       /\ xml.response_type = None /\ xml.flex_statements = None
    THEN Ok(Error(FlexError(xml.error_code[1], xml.error_message[1])))
    ELSE IF xml.response_type # None /\ xml.flex_statements # None
    THEN Ok(Success(FlexQuerySuccess(xml.response_type[1],
                                     xml.flex_statements[1])))
    ELSE Err([kind |-> "ParseError"])

\* The match of parse_flex_query_response (lines 220-231)
Classify(xml) ==
    IF /\ xml.error_code # None /\ xml.error_message # None
       /\ xml.response_type = None /\ xml.flex_statements = None
    THEN Ok(Error(FlexError(xml.error_code[1], xml.error_message[1])))
    ELSE IF /\ xml.error_code = None /\ xml.error_message = None
            /\ xml.response_type # None /\ xml.flex_statements # None
    THEN Ok(Success(FlexQuerySuccess(xml.response_type[1],
                                     xml.flex_statements[1])))
    ELSE Err([kind |-> "ParseError"])

parse_flex_query_response(text) ==
    IF from_str(text).ok THEN Classify(from_str(text).value)
    ELSE from_str(text)

(***************************************************************************)
(* SpecParse: parse_flex_query_response on every response text.            *)
(***************************************************************************)
Optional(S) == {None} \cup {Some(x) : x \in S}

ErrorCodes == {1003, 1019}

RetryMessage == "Statement generation in progress. Please try again shortly."

ErrorMessages == {"Statement is not available.", RetryMessage}

Texts ==
    [well_formed : BOOLEAN,
     ErrorCode : Optional(ErrorCodes),
     ErrorMessage : Optional(ErrorMessages),
     type : Optional({"AF"}),
     FlexStatements : Optional({ValidStatements, NewFlexStatements(0, << >>)})]

InitParse ==
    /\ flex \in [text : Texts, called : {"none"}, result : {<< >>}]
    /\ pc = "call"
    /\ all_conversions = << >>
    /\ base = NoBase
    /\ table = NoTable
    /\ warnings = {}
    /\ config = NoConfig
    /\ source_snapshots = << >>
    /\ total_amount = 0
    /\ log = << >>
    /\ panic = "none"
    /\ portfolio_total = 0
    /\ projection = NoProjection
    /\ invocation = NoInvocation
    /\ measure = NoMeasure

ParseFlexQueryResponse ==
    /\ pc = "call"
    /\ flex' = [flex EXCEPT !.called = "parse_flex_query_response",
                            !.result = parse_flex_query_response(flex.text)]
    /\ pc' = IF parse_flex_query_response(flex.text).ok
             THEN "returned" ELSE "failed"
    /\ UNCHANGED <<all_conversions, base, table, warnings, projection,
                   invocation, measure>>
    /\ UNCHANGED main_vars

SpecParse == InitParse /\ [][ParseFlexQueryResponse]_vars

(***************************************************************************)
(* SpecFlex: run_flex_query (ibflex.rs 299-351), one step per await: the   *)
(* SendRequest call of run_flex_query2, every call of                      *)
(* fetch_flex_query_result and every sleep.  The server's answers are      *)
(* chosen freely.                                                          *)
(***************************************************************************)
\* What a request can come back with: reqwest::get fails, the status is not
\* 200 OK, or a text arrives.
Failures == {Err([kind |-> "reqwest"]), Err([kind |-> "HttpError"])}

\* run_flex_query2: the failures are returned, a text that does not
\* deserialize panics at unwrap (line 257), and the others give a
\* FlexStatementResponse: Status and the four optional elements.
SendAnswers ==
    Failures \cup {[panicked |-> TRUE]}
        \cup {Ok(r) : r \in [status : {"Success", "Fail"},
                             reference_code : Optional({"4672968268"}),
                             url : Optional({"FlexStatementService.GetStatement"}),
                             error_code : Optional(ErrorCodes),
                             error_message : Optional(ErrorMessages)]}

\* fetch_flex_query_result: the failures are returned, a text is handed to
\* parse_flex_query_response.
FetchAnswers == Failures \cup {parse_flex_query_response(text) : text \in Texts}

\* is_retriable deciding by the code alone.
is_retriable_by_code(error) == error.code \in {1009, 1019, 1004}

\* FlexError::is_retriable; of the messages of the model, RetryMessage is
\* the one that contains "Please try again shortly".
is_retriable(error) ==
    error.code \in {1009, 1019, 1004} /\ error.message = RetryMessage

MaxRetries == 5

\* The test of line 336 letting one more retry through.
OutOfRetriesLate(retries) == retries > MaxRetries

\* retries >= 5 (line 336)
OutOfRetries(retries) == retries >= MaxRetries

InitFlex ==
    /\ flex = [at |-> "send", response |-> None, retries |-> 0, fetches |-> 0,
               last |-> None, result |-> None]
    /\ pc = "run"
    /\ all_conversions = << >>
    /\ base = NoBase
    /\ table = NoTable
    /\ warnings = {}
    /\ config = NoConfig
    /\ source_snapshots = << >>
    /\ total_amount = 0
    /\ log = << >>
    /\ panic = "none"
    /\ portfolio_total = 0
    /\ projection = NoProjection
    /\ invocation = NoInvocation
    /\ measure = NoMeasure

\* What a step of run_flex_query leaves alone
FlexFrame ==
    /\ UNCHANGED <<all_conversions, base, table, warnings, projection,
                   invocation, measure>>
    /\ UNCHANGED main_vars

\* return of run_flex_query, after the response and the answer given
ReturnFlex(result, response, last) ==
    /\ flex' = [flex EXCEPT !.at = "done", !.result = Some(result),
                            !.response = response, !.last = last]
    /\ pc' = IF result.ok THEN "returned" ELSE "failed"

\* a panic of run_flex_query, after the response given
PanicFlex(response) ==
    /\ flex' = [flex EXCEPT !.at = "done", !.response = response]
    /\ pc' = "panicked"

\* Lines 305-324 and the first fetch of the loop: a response that is not a
\* Success is turned into a FlexError, its code and message unwrapped; of a
\* Success the url and the reference code are unwrapped.
AfterSendRequest(response) ==
    IF response.status # "Success"
    THEN IF response.error_code = None \/ response.error_message = None
         THEN PanicFlex(Some(response))
         ELSE ReturnFlex(Err(FlexError(response.error_code[1],
                                       response.error_message[1])),
                         Some(response), None)
    ELSE IF response.url = None \/ response.reference_code = None
         THEN PanicFlex(Some(response))
         ELSE /\ flex' = [flex EXCEPT !.at = "fetching",
                               !.response = Some(response),
                               !.fetches = 1]
              /\ pc' = pc

\* run_flex_query2(token, query_id).await?
SendRequest ==
    /\ pc = "run"
    /\ flex.at = "send"
    /\ \E answer \in SendAnswers :
          IF "panicked" \in DOMAIN answer THEN PanicFlex(None)
          ELSE IF ~answer.ok THEN ReturnFlex(answer, None, None)
          ELSE AfterSendRequest(answer.value)
    /\ FlexFrame

\* Lines 331-347: the match on the result r of one fetch
AfterFetch(r) ==
    IF ~r.ok THEN ReturnFlex(r, flex.response, Some(r))
    ELSE IF r.value.kind = "Success"
    THEN ReturnFlex(Ok(r.value.success), flex.response, Some(r))
    ELSE IF ~is_retriable(r.value.error)
    THEN ReturnFlex(Err(r.value.error), flex.response, Some(r))
    ELSE IF OutOfRetries(flex.retries)
    THEN ReturnFlex(Err(r.value.error), flex.response, Some(r))
    ELSE /\ flex' = [flex EXCEPT !.at = "sleeping", !.retries = @ + 1,
                          !.last = Some(r)]
         /\ pc' = pc

\* fetch_flex_query_result(...).await: the answer of one fetch arrives
FetchAnswered ==
    /\ pc = "run"
    /\ flex.at = "fetching"
    /\ \E answer \in FetchAnswers : AfterFetch(answer)
    /\ FlexFrame

\* sleep(1000 ms).await is over; continue 'attempt issues the next fetch
Wake ==
    /\ pc = "run"
    /\ flex.at = "sleeping"
    /\ flex' = [flex EXCEPT !.at = "fetching", !.fetches = @ + 1]
    /\ pc' = pc
    /\ FlexFrame

NextFlex == SendRequest \/ FetchAnswered \/ Wake

SpecFlex == InitFlex /\ [][NextFlex]_vars

\* Every await completes: the server answers and the sleep ends.
SpecFlexFair == SpecFlex /\ WF_vars(NextFlex)

(***************************************************************************)
(* IBFlexSource::take_snapshot (source/ibflex_source.rs), applied to the   *)
(* result of run_flex_query.                                               *)
(***************************************************************************)
UnhandledResponse(message) == [message |-> message]

get_only_flex_statement(r) ==
    IF r.flex_statements.count # 1
    THEN Err(UnhandledResponse("expected 1 returned FlexStatements"))
    ELSE IF Len(r.flex_statements.flex_statements) # 1
    THEN Err(UnhandledResponse("expected 1 returned FlexStatement per FlexStatements"))
    ELSE Ok(r.flex_statements.flex_statements[1])

\* check_position without the test of the multiplier.
check_position_any_multiplier(position) ==
    IF position.asset_category # "Stock"
    THEN Err(UnhandledResponse("only stocks supported"))
    ELSE IF \/ position.put_call # "" \/ position.issuer # ""
            \/ position.expiry # "" \/ position.level_of_detail # "Summary"
    THEN Err(UnhandledResponse("unexpected fields populated"))
    ELSE IF position.side # "Long"
    THEN Err(UnhandledResponse("only long positions supported"))
    ELSE Ok(<< >>)

check_position(position) ==
    IF position.multiplier # Unit
    THEN Err(UnhandledResponse("multiplier != 1 not supported"))
    ELSE IF position.asset_category # "Stock"
    THEN Err(UnhandledResponse("only stocks supported"))
    ELSE IF \/ position.put_call # "" \/ position.issuer # ""
            \/ position.expiry # "" \/ position.level_of_detail # "Summary"
    THEN Err(UnhandledResponse("unexpected fields populated"))
    ELSE IF position.side # "Long"
    THEN Err(UnhandledResponse("only long positions supported"))
    ELSE Ok(<< >>)

\* Lines 103-129: map over the positions from the k-th on and collect into a
\* Result, which stops at the first error; entry(currency).or_insert(rate)
\* keeps the rate seen first.
RECURSIVE CollectAssets(_, _, _, _)
CollectAssets(positions, k, seen_exchange_rates, assets) ==
    IF k > Len(positions) THEN Ok(assets)
    ELSE IF ~check_position(positions[k]).ok THEN check_position(positions[k])
    ELSE IF /\ positions[k].currency \in DOMAIN seen_exchange_rates
            /\ seen_exchange_rates[positions[k].currency]
                 # positions[k].fx_rate_to_base
    THEN Err(UnhandledResponse("inconsistent rate for currency"))
    ELSE CollectAssets(positions, k + 1,
                       IF positions[k].currency \in DOMAIN seen_exchange_rates
                       THEN seen_exchange_rates
                       ELSE seen_exchange_rates
                              @@ (positions[k].currency
                                    :> positions[k].fx_rate_to_base),
                       Append(assets,
                              [denomination |-> [stock |-> positions[k].symbol],
                               amount |-> positions[k].position]))

\* take_snapshot after run_flex_query(token, query_id).await gave run; the
\* positions are open_position.as_ref().unwrap_or(&empty).
take_snapshot(run) ==
    IF ~run.ok THEN run
    ELSE IF ~get_only_flex_statement(run.value).ok
    THEN get_only_flex_statement(run.value)
    ELSE LET s == get_only_flex_statement(run.value).value
         IN  CollectAssets(IF s.open_positions.open_position = None
                           THEN << >>
                           ELSE s.open_positions.open_position[1],
                           1, << >>, << >>)

(***************************************************************************)
(* SpecSnapshot: take_snapshot on the results run_flex_query can give.     *)
(***************************************************************************)
MaxPositions == 2

\* The positions, with the symbols and sizes of flex_query_response_valid.
\* Beside currency, symbol and rate a position holds nothing unusual, another
\* multiplier, or one of the fields that must be empty.
OpenPositions ==
    {NewOpenPosition(currency, symbol, odd.multiplier, rate,
                     IF symbol = "ABCD" THEN 1111 * Unit ELSE 1112 * Unit,
                     odd.issuer, odd.expiry, odd.put_call) :
        currency \in {"USD", "CHF"}, symbol \in {"ABCD", "EFGH"},
        rate \in {8903 * (Unit \div 10000), Unit},
        odd \in {[multiplier |-> Unit, issuer |-> "", expiry |-> "", put_call |-> ""],
                 [multiplier |-> 100 * Unit, issuer |-> "", expiry |-> "", put_call |-> ""],
                 [multiplier |-> Unit, issuer |-> "XYZ", expiry |-> "", put_call |-> ""],
                 [multiplier |-> Unit, issuer |-> "", expiry |-> "20210319", put_call |-> ""],
                 [multiplier |-> Unit, issuer |-> "", expiry |-> "", put_call |-> "C"]}}

SnapshotStatements ==
    {NewFlexStatements(1, <<NewFlexStatement(Some(l))>>) :
        l \in UNION {[1..n -> OpenPositions] : n \in 0..MaxPositions}}
        \cup {NewFlexStatements(1, <<NewFlexStatement(None)>>),
              NewFlexStatements(0, << >>),
              NewFlexStatements(1, << >>),
              NewFlexStatements(2, ValidStatements.flex_statements),
              NewFlexStatements(1, ValidStatements.flex_statements
                                       \o ValidStatements.flex_statements),
              NewFlexStatements(2, ValidStatements.flex_statements
                                       \o <<NewFlexStatement(None)>>)}

\* run holds the result of run_flex_query.
InitSnapshot ==
    /\ flex \in [run : Failures
                         \cup {Err(FlexError(1003, "Statement is not available."))}
                         \cup {Ok(FlexQuerySuccess("AF", s)) : s \in SnapshotStatements},
                 called : {"none"}, result : {<< >>}]
    /\ pc = "call"
    /\ all_conversions = << >>
    /\ base = NoBase
    /\ table = NoTable
    /\ warnings = {}
    /\ config = NoConfig
    /\ source_snapshots = << >>
    /\ total_amount = 0
    /\ log = << >>
    /\ panic = "none"
    /\ portfolio_total = 0
    /\ projection = NoProjection
    /\ invocation = NoInvocation
    /\ measure = NoMeasure

TakeSnapshot ==
    /\ pc = "call"
    /\ flex' = [flex EXCEPT !.called = "take_snapshot",
                            !.result = take_snapshot(flex.run)]
    /\ pc' = IF take_snapshot(flex.run).ok THEN "returned" ELSE "failed"
    /\ FlexFrame

SpecSnapshot == InitSnapshot /\ [][TakeSnapshot]_vars

(***************************************************************************)
(* Helpers of the properties.                                              *)
(***************************************************************************)

\* 0.001, the tolerance of common_currency_test.rs
Tolerance == Unit \div 1000

\* The denominations joined to those of S by observations, in either
\* direction.
RECURSIVE Closure(_, _)
Closure(conversions, S) ==
    LET T == S \cup {conversions[k].to : k \in {i \in DOMAIN conversions : conversions[i].from \in S}}
               \cup {conversions[k].from : k \in {i \in DOMAIN conversions : conversions[i].to \in S}}
    IN  IF T = S THEN S ELSE Closure(conversions, T)

ConnectedTo(conversions, b) == Closure(conversions, {b})

\* The distance vector behind the returned table.
DistanceOf(n) == IF n \in DOMAIN table THEN Finite(table[n]) ELSE Infinite

(***************************************************************************)
(* C1: for the single observation A -> B with rate r and base B, the       *)
(* returned table holds A, and factor[A] is r within the tolerance 0.001.  *)
(***************************************************************************)
SingleHopCorrect ==
    (pc = "returned" /\ Len(all_conversions) = 1 /\ base = all_conversions[1].to)
        => /\ all_conversions[1].from \in DOMAIN table
           /\ Abs(table[all_conversions[1].from] - all_conversions[1].rate) < Tolerance

SingleHopWitness ==
    /\ pc = "returned"
    /\ all_conversions = << [from |-> "USD", to |-> "CZK", rate |-> 3 * Unit] >>
    /\ base = "CZK"
    /\ table["USD"] = 3 * Unit

(***************************************************************************)
(* C2: for the two observations A -> B with rate r1 and B -> C with rate   *)
(* r2 (A, B, C distinct), listed in either order, and base C, factor[A]    *)
(* is r1 * r2.                                                             *)
(***************************************************************************)
IsChain(conversions, i, j, b) ==
    /\ Len(conversions) = 2
    /\ i # j
    /\ conversions[i].to = conversions[j].from
    /\ conversions[j].to = b
    /\ conversions[i].from \notin {conversions[j].from, b}

ChainComposition ==
    pc = "returned" =>
        \A i, j \in DOMAIN all_conversions :
            IsChain(all_conversions, i, j, base)
                => /\ all_conversions[i].from \in DOMAIN table
                   /\ table[all_conversions[i].from]
                        = DecMul(all_conversions[i].rate, all_conversions[j].rate)

(***************************************************************************)
(* C3: the returned table is the same for every order in which the same    *)
(* observations are listed.                                                *)
(***************************************************************************)
Reorderings(conversions) ==
    {[k \in DOMAIN conversions |-> conversions[p[k]]] :
        p \in {q \in [DOMAIN conversions -> DOMAIN conversions] :
                  \A x, y \in DOMAIN conversions : x # y => q[x] # q[y]}}

OrderIndependent ==
    pc = "returned" =>
        \A other \in Reorderings(all_conversions) :
            in_common_currency(other, base).table = table

(***************************************************************************)
(* C4: a denomination is a key of the returned table exactly when          *)
(* observations connect it to base (in either direction); the others are   *)
(* absent from the table.                                                  *)
(***************************************************************************)
KeysAreConnected ==
    pc = "returned" =>
        /\ DOMAIN table = ConnectedTo(all_conversions, base)
        /\ \A d \in Denoms \ ConnectedTo(all_conversions, base) : d \notin DOMAIN table

KeysAreConnectedWitness ==
    /\ pc = "returned"
    /\ \E d \in unique_denominations(all_conversions) : d \notin DOMAIN table
    /\ \E d \in DOMAIN table : d # base

(***************************************************************************)
(* C5: once the table is there, the total is the sum of amount * factor    *)
(* over exactly the holdings whose denomination is a key of the table;     *)
(* a holding whose denomination is absent adds nothing, is reported (one   *)
(* warning per holding) and does not abort: the run gets past the total    *)
(* unless the table itself could not be computed.                          *)
(***************************************************************************)
\* The holdings, as positions <<source, index>> of source_snapshots.
Positions ==
    {p \in (DOMAIN source_snapshots) \X (1..MaxAssets) :
        p[2] \in DOMAIN source_snapshots[p[1]].snapshot}

HoldingAt(p) == source_snapshots[p[1]].snapshot[p[2]]

Convertible == {p \in Positions : HoldingAt(p).denomination \in DOMAIN table}

RECURSIVE SumInCommon(_)
SumInCommon(S) ==
    IF S = {} THEN 0
    ELSE LET p == CHOOSE q \in S : TRUE
         IN  DecMul(HoldingAt(p).amount, table[HoldingAt(p).denomination])
                + SumInCommon(S \ {p})

TotalIsSumOfConvertible ==
    /\ panic = "base" => base \notin unique_denominations(all_conversions)
    /\ (pc # "start" /\ panic # "base") =>
          /\ total_amount = SumInCommon(Convertible)
          /\ Len(log) = Cardinality(Positions \ Convertible)
          /\ {log[k] : k \in DOMAIN log}
                = {HoldingAt(p).denomination : p \in Positions \ Convertible}

TotalIsSumOfConvertibleWitness ==
    /\ pc = "valued"
    /\ Cardinality(Convertible) >= 2
    /\ Positions \ Convertible # {}
    /\ log # << >>
    /\ total_amount > 0

(***************************************************************************)
(* C6: a denomination without a factor never aborts a run of               *)
(* model_and_show: no run ends in the panic of a lookup of a missing       *)
(* factor, whether the denomination is that of a holding of a portfolio    *)
(* or adjustment source, of a monthly target or of the monthly saving.     *)
(***************************************************************************)
MissingFactorNeverAborts == panic # "price"

(***************************************************************************)
(* C7: for an acyclic set of observations and base X, every other          *)
(* denomination Y of the table satisfies                                   *)
(* factor[Y] (base X) * factor[X] (base Y) = 1.                            *)
(***************************************************************************)
\* The observations form a forest: every non-empty subset of them has a
\* denomination that exactly one observation of the subset touches.
Touches(c, d) == c.from = d \/ c.to = d

Acyclic(conversions) ==
    \A sub \in (SUBSET DOMAIN conversions) \ {{}} :
        \E d \in Denoms :
            Cardinality({k \in sub : Touches(conversions[k], d)}) = 1

ReciprocalSymmetry ==
    (pc = "returned" /\ Acyclic(all_conversions)) =>
        \A y \in DOMAIN table \ {base} :
            /\ base \in DOMAIN in_common_currency(all_conversions, y).table
            /\ DecMul(table[y], in_common_currency(all_conversions, y).table[base]) = Unit

(***************************************************************************)
(* C8: when all observations are of one denomination pair and offer        *)
(* different rates, the factor of the denomination that is not base is     *)
(* the factor obtained from the best (lowest-cost) observation alone.      *)
(***************************************************************************)
\* The weight of the edge base -> d that the observation c contributes.
CandidateWeight(c, d) == IF c.from = d THEN c.rate ELSE DecDiv(Unit, c.rate)

AllParallel(conversions, b, d) ==
    /\ Len(conversions) >= 2
    /\ \A k \in DOMAIN conversions : {conversions[k].from, conversions[k].to} = {b, d}
    /\ \E i, j \in DOMAIN conversions :
          CandidateWeight(conversions[i], d) # CandidateWeight(conversions[j], d)

IsBest(conversions, k, d) ==
    \A i \in DOMAIN conversions :
        CandidateWeight(conversions[k], d) <= CandidateWeight(conversions[i], d)

ParallelKeepsBest ==
    pc = "returned" =>
        \A d \in Denoms \ {base} :
            AllParallel(all_conversions, base, d) =>
                \A k \in DOMAIN all_conversions :
                    IsBest(all_conversions, k, d) =>
                        /\ d \in DOMAIN table
                        /\ table[d] = in_common_currency(<<all_conversions[k]>>, base).table[d]

(***************************************************************************)
(* C9: the check pass warns exactly when some edge still improves its      *)
(* target after the passes, and that is exactly when a cycle reachable     *)
(* from base has weights that multiply to less than 1.                     *)
(***************************************************************************)
EdgePaths(g, n) == [1..n -> DOMAIN g.edges]

IsCycle(g, path) ==
    /\ \A k \in DOMAIN path :
          g.edges[path[k]].target
            = g.edges[path[IF k = Len(path) THEN 1 ELSE k + 1]].source
    /\ \A k, l \in DOMAIN path :
          k # l => g.edges[path[k]].source # g.edges[path[l]].source

RECURSIVE PathProduct(_, _, _)
PathProduct(g, path, k) ==
    IF k = 0 THEN zero
    ELSE add(PathProduct(g, path, k - 1), g.edges[path[k]].weight)

HasImprovingCycle(conversions, b) ==
    \E n \in 1..Cardinality(Graph(conversions).nodes) :
        \E path \in EdgePaths(Graph(conversions), n) :
            /\ IsCycle(Graph(conversions), path)
            /\ Graph(conversions).edges[path[1]].source \in ConnectedTo(conversions, b)
            /\ Less(PathProduct(Graph(conversions), path, n), zero)

WarnsIffCycle ==
    pc = "returned" =>
        /\ warnings # {}
             <=> \E k \in DOMAIN Graph(all_conversions).edges :
                    Less(add(DistanceOf(Graph(all_conversions).edges[k].source),
                             Graph(all_conversions).edges[k].weight),
                         DistanceOf(Graph(all_conversions).edges[k].target))
        /\ warnings # {} <=> HasImprovingCycle(all_conversions, base)

(***************************************************************************)
(* C10: when the check pass warns, the call still returns: the table is    *)
(* made of the distances the passes computed and holds every denomination  *)
(* connected to base.                                                      *)
(***************************************************************************)
RelaxedDistance(conversions, b) ==
    RelaxPasses(InitVectors(Graph(conversions), b), Graph(conversions),
                MaxPasses(Graph(conversions))).distance

WarningIsNotFatal ==
    (pc # "call" /\ base \in unique_denominations(all_conversions)
       /\ NegCycleWarnings(Graph(all_conversions), RelaxedDistance(all_conversions, base)) # {})
        => /\ pc = "returned"
           /\ warnings # {}
           /\ table = FilterFinite(unique_denominations(all_conversions),
                                   RelaxedDistance(all_conversions, base))
           /\ ConnectedTo(all_conversions, base) \subseteq DOMAIN table

WarningIsNotFatalWitness ==
    /\ pc = "returned"
    /\ warnings # {}
    /\ Cardinality(DOMAIN table) >= 3

(***************************************************************************)
(* C11: the empty list of observations is valid input: its graph has no    *)
(* node and no edge, and the call on it returns.                           *)
(***************************************************************************)
EmptyListIsValid ==
    (all_conversions = << >> /\ pc # "call") =>
        /\ Graph(all_conversions).nodes = {}
        /\ Graph(all_conversions).edges = << >>
        /\ pc = "returned"

(***************************************************************************)
(* C12: a rate that is zero or negative is rejected when the observation   *)
(* is built: no observation of the list handed to in_common_currency has   *)
(* such a rate, and no run ends because of one.                            *)
(***************************************************************************)
NonPositiveRateRejected ==
    /\ \A k \in DOMAIN all_conversions : all_conversions[k].rate > 0
    /\ panic # "division"

(***************************************************************************)
(* C13: model_fi_info returns the state Reached exactly when total is at   *)
(* least the deadline target; when total equals the target the state is    *)
(* Reached with overreach_percentage 100, and any total below the target   *)
(* gives NotReached.                                                       *)
(***************************************************************************)
\* The projection function f has been called.
Called(f) == DOMAIN projection # {} /\ projection.called = f

\* The target of the call, when deadline_target has a value.
TargetOfCall == deadline_target(projection.yearly_yield, projection.monthly_goal)

ReachedIffAtLeastTarget ==
    (Called("model_fi_info") /\ TargetOfCall.panic = "none") =>
        /\ projection.result.state = "Reached"
              <=> projection.total >= TargetOfCall.value
        /\ projection.total = TargetOfCall.value =>
              projection.result.overreach_percentage = 100 * Unit
        /\ projection.total < TargetOfCall.value =>
              projection.result.state = "NotReached"

(***************************************************************************)
(* C14: a projection with yearly_yield = 0 does not panic: each of         *)
(* model_fi_info, get_investment_durability and years_until_saved_up_exp   *)
(* returns when ln(1 + yield) is 0.                                        *)
(***************************************************************************)
ZeroYieldDoesNotPanic ==
    (DOMAIN projection # {} /\ projection.called # "none"
        /\ projection.yearly_yield = 0) =>
        /\ pc = "returned"
        /\ projection.result.panic = "none"

(***************************************************************************)
(* C15: get_investment_durability takes the logarithm of C / (C - i' *     *)
(* total), where C = 12 * monthly_costs and i' = ln(1 + yield): for a      *)
(* positive yield and C > i' * total the call returns, and the argument    *)
(* of its logarithm is that quotient.                                      *)
(***************************************************************************)
\* 12 * monthly_costs and i' * total of the call
YearlyCosts == projection.monthly_goal * 12

YieldOfTotal == DecMul(LogOnePlus(projection.yearly_yield), projection.total)

DurabilityLogArgument ==
    (Called("get_investment_durability") /\ projection.yearly_yield > 0
        /\ YearlyCosts > YieldOfTotal) =>
        /\ projection.result.panic = "none"
        /\ Abs(projection.result.value
                 - DecDiv(YearlyCosts, YearlyCosts - YieldOfTotal)) <= Tolerance

(***************************************************************************)
(* C16: years_until_saved_up_exp takes the logarithm of (target + S / i')  *)
(* / (total + S / i'), where S = 12 * monthly_saving: for a positive       *)
(* yield the call returns that argument, so its result is 0 when target    *)
(* equals total and positive when target exceeds total.                    *)
(***************************************************************************)
\* S / i' of the call
SavingOverYield ==
    DecDiv(projection.monthly_saving * 12, LogOnePlus(projection.yearly_yield))

SavedUpLogArgument ==
    (Called("years_until_saved_up_exp") /\ projection.yearly_yield > 0
        /\ projection.total + SavingOverYield > 0) =>
        /\ projection.result.panic = "none"
        /\ Abs(projection.result.value
                 - DecDiv(projection.target_number + SavingOverYield,
                          projection.total + SavingOverYield)) <= Tolerance
        /\ projection.target_number = projection.total =>
              projection.result.value = Unit
        /\ projection.target_number > projection.total =>
              projection.result.value > Unit

(***************************************************************************)
(* C17: invocations of in_common_currency that run side by side,           *)
(* interleaved edge by edge, each end as they end when run alone: with     *)
(* the same table and the same warnings, or with the same panic.           *)
(***************************************************************************)
\* What invocation p returns when it runs alone.
Alone(p) == in_common_currency(invocation[p].conversions, invocation[p].base)

ConcurrentCallsAgree ==
    pc = "run" =>
        \A p \in Procs :
            /\ invocation[p].at = "returned" =>
                  /\ Alone(p).outcome = "returned"
                  /\ invocation[p].table = Alone(p).table
                  /\ invocation[p].warned = Alone(p).warnings
            /\ invocation[p].at = "panicked" => Alone(p).outcome = "panicked"

\* The first invocation has returned a table of three denominations, with
\* a warning, while the second is in the middle of its first pass.
ConcurrentCallsAgreeWitness ==
    /\ pc = "run"
    /\ invocation[1].at = "returned"
    /\ Cardinality(DOMAIN invocation[1].table) = 3
    /\ invocation[1].warned # {}
    /\ invocation[2].at = "relax"
    /\ invocation[2].edge = 2

(***************************************************************************)
(* C18: bellman_ford starts with distance[source] = 1 and every other      *)
(* distance infinite, makes at most |V| - 1 relaxation passes, stops       *)
(* relaxing after the first pass without an update, then makes exactly     *)
(* one check pass and returns; every invocation terminates, improving      *)
(* cycle or not.                                                           *)
(***************************************************************************)
\* Invocation p is at the end of a relaxation pass.
AtEndOfPass(p) ==
    /\ invocation[p].at = "relax"
    /\ invocation[p].edge > Len(GraphOf(p).edges)

PassesInv ==
    pc = "run" =>
        \A p \in Procs :
            /\ (invocation[p].at = "relax" /\ invocation[p].pass = 1
                    /\ invocation[p].edge = 1) =>
                  \A n \in GraphOf(p).nodes :
                      invocation[p].distance[n] =
                          IF n = invocation[p].base THEN Finite(Unit) ELSE Infinite
            /\ invocation[p].at # "idle" /\ invocation[p].at # "panicked" =>
                  invocation[p].pass <= Cardinality(GraphOf(p).nodes) - 1
            /\ invocation[p].checks <= 1
            /\ invocation[p].at \in {"check", "returned"} <=> invocation[p].checks = 1

PassesStep ==
    \A p \in Procs :
        /\ (AtEndOfPass(p) /\ ~invocation[p].did_update
                /\ invocation'[p] # invocation[p]) =>
              invocation'[p].at = "check"
        /\ invocation[p].at = "check" => invocation'[p].at \in {"check", "returned"}
        /\ invocation[p].at \in {"returned", "panicked"} =>
              invocation'[p] = invocation[p]

AllFinished == \A p \in Procs : invocation[p].at \in {"returned", "panicked"}

BoundedPassesAndTermination ==
    /\ []PassesInv
    /\ [][PassesStep]_vars
    /\ <>AllFinished

\* An invocation on an improving cycle has made its |V| - 1 = 2 passes and
\* its check pass, and has returned.
BoundedPassesAndTerminationWitness ==
    /\ pc = "run"
    /\ invocation[1].at = "returned"
    /\ Cardinality(GraphOf(1).nodes) = 3
    /\ invocation[1].pass = 2
    /\ invocation[1].warned # {}
    /\ invocation[1].checks = 1

(***************************************************************************)
(* C19: for a rate set in which no cycle has weights that multiply to less *)
(* than 1, at return every edge (i -> j, w) satisfies                      *)
(* distance[j] <= distance[i] * w, whatever the order of the observations. *)
(***************************************************************************)
HasCycleBelowOne(conversions) ==
    \E n \in 1..Cardinality(Graph(conversions).nodes) :
        \E path \in EdgePaths(Graph(conversions), n) :
            /\ IsCycle(Graph(conversions), path)
            /\ Less(PathProduct(Graph(conversions), path, n), zero)

EdgeIsRelaxed(edge) ==
    ~Less(add(DistanceOf(edge.source), edge.weight), DistanceOf(edge.target))

EveryEdgeRelaxedAtReturn ==
    (pc = "returned" /\ ~HasCycleBelowOne(all_conversions))
        => \A k \in DOMAIN Graph(all_conversions).edges :
              EdgeIsRelaxed(Graph(all_conversions).edges[k])

(***************************************************************************)
(* C20: for a single observation with positive rate r, the reverse weight  *)
(* 1 / r composes with r to exactly 1, so the solved table keeps           *)
(* factor[base] at 1 and the check pass warns about nothing.               *)
(***************************************************************************)
ReverseComposesToOne ==
    (pc = "returned" /\ Len(all_conversions) = 1)
        => /\ \A k, l \in DOMAIN Graph(all_conversions).edges :
                 k # l => add(Graph(all_conversions).edges[k].weight,
                              Graph(all_conversions).edges[l].weight) = zero
           /\ table[base] = Unit
           /\ warnings = {}

(***************************************************************************)
(* C21: the graph of in_common_currency has exactly one node per           *)
(* denomination that is an endpoint of an observation, and exactly two     *)
(* edges per observation, to -> from weighted rate and from -> to          *)
(* weighted 1 / rate; parallel observations stay separate edges and the    *)
(* nodes do not depend on base.                                            *)
(***************************************************************************)
Endpoints(conversions) ==
    {d \in Denoms : \E k \in DOMAIN conversions :
                        conversions[k].from = d \/ conversions[k].to = d}

TwoEdgesPerObservation ==
    pc # "call" =>
        /\ Graph(all_conversions).nodes = Endpoints(all_conversions)
        /\ Len(Graph(all_conversions).edges) = 2 * Len(all_conversions)
        /\ \A k \in DOMAIN all_conversions :
              /\ Graph(all_conversions).edges[2 * k - 1]
                   = [source |-> all_conversions[k].to,
                      target |-> all_conversions[k].from,
                      weight |-> Finite(all_conversions[k].rate)]
              /\ Graph(all_conversions).edges[2 * k]
                   = [source |-> all_conversions[k].from,
                      target |-> all_conversions[k].to,
                      weight |-> Finite(DecDiv(Unit, all_conversions[k].rate))]

TwoEdgesPerObservationWitness ==
    /\ pc = "returned"
    /\ Len(all_conversions) = MaxObs
    /\ all_conversions[1] = all_conversions[2]
    /\ Cardinality(DOMAIN table) >= 3
    /\ base # all_conversions[1].to

(***************************************************************************)
(* C22: the weight type has the laws the solver relies on: Finite(1) is    *)
(* the identity of add, adding two finite values gives their product,      *)
(* adding Infinite on either side gives Infinite, and Infinite compares    *)
(* greater than every finite value and equal to itself.                    *)
(***************************************************************************)
Operated(function) == DOMAIN measure # {} /\ measure.called = function

IsWhole(m) == m.kind = "Finite" /\ m.val % Unit = 0

AddLaws(a, b, sum) ==
    /\ a = Finite(Unit) => sum = b
    /\ b = Finite(Unit) => sum = a
    /\ (a.kind = "Finite" /\ b.kind = "Finite") => sum.kind = "Finite"
    /\ (IsWhole(a) /\ b.kind = "Finite")
          => sum = Finite((a.val \div Unit) * b.val)
    /\ (a.kind = "Finite" /\ IsWhole(b))
          => sum = Finite(a.val * (b.val \div Unit))
    /\ (a = Infinite \/ b = Infinite) => sum = Infinite

CmpLaws(a, b, ordering) ==
    /\ (a = Infinite /\ b.kind = "Finite") => ordering = "Greater"
    /\ (a.kind = "Finite" /\ b = Infinite) => ordering = "Less"
    /\ (a = Infinite /\ b = Infinite) => ordering = "Equal"

WeightLaws ==
    /\ Operated("add") => AddLaws(measure.self, measure.other, measure.result)
    /\ Operated("partial_cmp")
          => CmpLaws(measure.self, measure.other, measure.result)

WeightLawsWitness ==
    /\ Operated("add")
    /\ measure.self = Infinite
    /\ measure.other = Finite(DecDiv(Unit, 3 * Unit))
    /\ measure.result = Infinite

(***************************************************************************)
(* C23: parse_flex_query_response classifies a well-formed response by the *)
(* fields present: Error(code, message) exactly when error code and error  *)
(* message are present and type and statements absent, Success exactly     *)
(* when type and statements are present and both error fields absent, and  *)
(* a parse error for every other combination.                              *)
(***************************************************************************)
Parsed == DOMAIN flex # {} /\ flex.called = "parse_flex_query_response"

Present(element) == flex.text[element] # None

ErrorShape ==
    /\ Present("ErrorCode") /\ Present("ErrorMessage")
    /\ ~Present("type") /\ ~Present("FlexStatements")

SuccessShape ==
    /\ ~Present("ErrorCode") /\ ~Present("ErrorMessage")
    /\ Present("type") /\ Present("FlexStatements")

IsFlexError == flex.result.ok /\ flex.result.value.kind = "Error"

IsFlexSuccess == flex.result.ok /\ flex.result.value.kind = "Success"

ClassifiedByPresence ==
    (Parsed /\ flex.text.well_formed) =>
        /\ IsFlexError <=> ErrorShape
        /\ IsFlexError =>
              flex.result.value.error
                = [code |-> flex.text.ErrorCode[1],
                   message |-> flex.text.ErrorMessage[1]]
        /\ IsFlexSuccess <=> SuccessShape
        /\ IsFlexSuccess =>
              flex.result.value.success
                = [response_type |-> flex.text.type[1],
                   flex_statements |-> flex.text.FlexStatements[1]]
        /\ ~flex.result.ok <=> (~ErrorShape /\ ~SuccessShape)
        /\ ~flex.result.ok => flex.result.error = [kind |-> "ParseError"]

ClassifiedByPresenceWitness ==
    /\ Parsed
    /\ flex.text.well_formed
    /\ Present("ErrorCode") /\ Present("ErrorMessage")
    /\ Present("type") /\ Present("FlexStatements")
    /\ ~flex.result.ok
    /\ pc = "failed"

(***************************************************************************)
(* C24: for every list of positive-rate observations in which base         *)
(* appears, the returned table maps base itself to exactly 1.              *)
(***************************************************************************)
BaseMapsToOne ==
    (pc = "returned" /\ base \in unique_denominations(all_conversions)
       /\ \A k \in DOMAIN all_conversions : all_conversions[k].rate > 0)
        => (base \in DOMAIN table /\ table[base] = Unit)

(***************************************************************************)
(* C25: in_common_currency panics at the lookup of base's node and returns *)
(* no table whenever base is not an endpoint of any observation, the empty *)
(* list included; whenever base is an endpoint and all rates are positive  *)
(* it returns a table that contains base.                                  *)
(***************************************************************************)
AbortsIffBaseMissing ==
    pc \in {"returned", "panicked"} =>
        /\ base \notin unique_denominations(all_conversions)
              => (pc = "panicked" /\ panic = "base" /\ table = NoTable)
        /\ (/\ base \in unique_denominations(all_conversions)
            /\ \A k \in DOMAIN all_conversions : all_conversions[k].rate > 0)
              => (pc = "returned" /\ base \in DOMAIN table)

(***************************************************************************)
(* C26: run_flex_query calls fetch_flex_query_result at most 6 times, one  *)
(* attempt and at most 5 retries, and every run ends, a run that fetched   *)
(* with a success or with an error, even when every fetch is answered with *)
(* a retriable error.                                                      *)
(***************************************************************************)
IsRetriableAnswer(answer) ==
    /\ answer.ok
    /\ answer.value.kind = "Error"
    /\ answer.value.error.code \in {1009, 1019, 1004}
    /\ answer.value.error.message = RetryMessage

FetchesBounded ==
    /\ flex.fetches <= 6
    /\ flex.retries <= 5
    /\ (flex.at = "done" /\ flex.fetches >= 1)
          => (pc \in {"returned", "failed"} /\ flex.result # None)

FlexEnded == flex.at = "done"

AtMostSixFetches == []FetchesBounded /\ <>FlexEnded

AtMostSixFetchesWitness ==
    /\ flex # NoFlex
    /\ flex.at = "done"
    /\ flex.fetches = 6
    /\ flex.retries = 5
    /\ pc = "failed"
    /\ IsRetriableAnswer(flex.last[1])
    /\ flex.result = Some(Err(flex.last[1].value.error))

(***************************************************************************)
(* C27: run_flex_query issues another fetch only after a fetch returned a  *)
(* retriable Flex error (code 1009, 1019 or 1004 and a message containing  *)
(* "Please try again shortly"); a non-retriable Flex error, a transport or *)
(* parse failure, or a Success ends the loop at once, and no fetch follows *)
(* any of them.                                                            *)
(***************************************************************************)
OtherAnswerEnds ==
    (flex.last # None /\ ~IsRetriableAnswer(flex.last[1]))
        => flex.at = "done"

RefetchAfterRetriable ==
    /\ (flex.fetches >= 1 /\ flex'.fetches # flex.fetches)
          => (/\ flex'.fetches = flex.fetches + 1
              /\ flex.last # None
              /\ IsRetriableAnswer(flex.last[1]))
    /\ flex.at = "done" => flex'.fetches = flex.fetches

FetchOnlyAfterRetriable ==
    []OtherAnswerEnds /\ [][RefetchAfterRetriable]_vars

FetchOnlyAfterRetriableWitness ==
    /\ flex # NoFlex
    /\ flex.at = "fetching"
    /\ flex.fetches = 3
    /\ IsRetriableAnswer(flex.last[1])

(***************************************************************************)
(* C28: if the SendRequest response has a status other than Success,       *)
(* run_flex_query returns a FlexError carrying that response's error code  *)
(* and message and never fetches a statement; a fetch is issued only after *)
(* a Success response that supplied both a URL and a reference code.       *)
(***************************************************************************)
FailedSendReturnsFlexError ==
    /\ (flex.response # None /\ flex.response[1].status # "Success")
          => /\ flex.fetches = 0
             /\ pc = "failed"
             /\ flex.result
                  = Some(Err([code |-> flex.response[1].error_code[1],
                              message |-> flex.response[1].error_message[1]]))
    /\ flex.fetches >= 1
          => /\ flex.response # None
             /\ flex.response[1].status = "Success"
             /\ flex.response[1].url # None
             /\ flex.response[1].reference_code # None

(***************************************************************************)
(* C29: take_snapshot returns Ok with exactly one Asset per open position, *)
(* in order, each Stock(symbol) with the position's size as amount, if and *)
(* only if the response holds exactly one statement, every position passes *)
(* check_position and all positions of one currency carry the same         *)
(* fxRateToBase; otherwise it returns an error and no assets.              *)
(***************************************************************************)
Taken == DOMAIN flex # {} /\ flex.called = "take_snapshot"

OneStatement ==
    /\ flex.run.ok
    /\ flex.run.value.flex_statements.count = 1
    /\ Len(flex.run.value.flex_statements.flex_statements) = 1

PositionsGiven ==
    IF flex.run.value.flex_statements.flex_statements[1]
           .open_positions.open_position = None
    THEN << >>
    ELSE flex.run.value.flex_statements.flex_statements[1]
             .open_positions.open_position[1]

Passes(position) ==
    /\ position.multiplier = Unit
    /\ position.asset_category = "Stock"
    /\ position.put_call = "" /\ position.issuer = "" /\ position.expiry = ""
    /\ position.level_of_detail = "Summary"
    /\ position.side = "Long"

Acceptable ==
    /\ OneStatement
    /\ \A k \in DOMAIN PositionsGiven : Passes(PositionsGiven[k])
    /\ \A k, l \in DOMAIN PositionsGiven :
          PositionsGiven[k].currency = PositionsGiven[l].currency
              => PositionsGiven[k].fx_rate_to_base
                   = PositionsGiven[l].fx_rate_to_base

SnapshotIffAcceptable ==
    Taken =>
        /\ flex.result.ok <=> Acceptable
        /\ flex.result.ok =>
              /\ Len(flex.result.value) = Len(PositionsGiven)
              /\ \A k \in DOMAIN PositionsGiven :
                    flex.result.value[k]
                      = [amount |-> PositionsGiven[k].position,
                         denomination |-> [stock |-> PositionsGiven[k].symbol]]
        /\ ~flex.result.ok => "value" \notin DOMAIN flex.result

SnapshotIffAcceptableWitness ==
    /\ Taken
    /\ pc = "returned"
    /\ Len(flex.result.value) = MaxPositions
    /\ PositionsGiven[1].currency = PositionsGiven[2].currency
    /\ PositionsGiven[1].symbol # PositionsGiven[2].symbol

(***************************************************************************)
(* C30: during one run of bellman_ford the distance of a node never        *)
(* increases: every update replaces a distance by a strictly smaller       *)
(* value, and a distance that has become finite never returns to infinite. *)
(***************************************************************************)
Running(p) == invocation[p].at \in {"relax", "check", "returned"}

DistanceStep(old, new) ==
    /\ ~Less(old, new)
    /\ new # old => Less(new, old)
    /\ old.kind = "Finite" => new.kind = "Finite"

DistancesStep ==
    \A p \in Procs :
        Running(p) =>
            \A n \in DOMAIN invocation[p].distance :
                DistanceStep(invocation[p].distance[n],
                             invocation'[p].distance[n])

DistancesNeverIncrease == [][DistancesStep]_vars

DistancesNeverIncreaseWitness ==
    /\ invocation # NoInvocation
    /\ invocation[1].at = "relax"
    /\ invocation[1].did_update
    /\ invocation[1].distance[invocation[1].base].val < Unit
    /\ \E n \in DOMAIN invocation[1].distance :
          invocation[1].distance[n].kind = "Infinite"

====
